---- MODULE Spec2Model ----
(***************************************************************************)
(* syncfile.py: a one-way directory mirror built on watchdog.              *)
(*                                                                         *)
(* The filesystem is one function fs from the paths that exist to "dir"    *)
(* or to the bytes of a regular file.  A path is the sequence of its       *)
(* segments; the root <<>> always exists as a directory.  The watch tree   *)
(* and the mirror tree of a pair live side by side in fs, as they do on    *)
(* disk.                                                                   *)
(***************************************************************************)
EXTENDS Naturals, Integers, Sequences, FiniteSets, TLC

VARIABLES
    fs,          \* the filesystem: existing path -> "dir" or file bytes
    log,         \* sync.log: the lines appended so far
    config,      \* the content of Config.json
    pc,          \* main(): where the main thread is
    idx,         \* main(): the index of the loop main is in
    observers,   \* main(): the observers list, one record per started Observer
    interrupted, \* the interrupt signal (SIGINT) has been delivered
    last,        \* the last handler call: event, filesystem before it, outcome
    changes,     \* number of changes made to the watch trees so far
    deliveries,  \* number of times the notification under test was queued
    mapped       \* the paths mapped so far: <<pair, path>> -> outcome

vars == <<fs, log, config, pc, idx, observers, interrupted, last, changes, deliveries,
          mapped>>

-----------------------------------------------------------------------------
(* Bounds of the model *)

MaxDepth == 2          \* depth of the paths below a root that events name
MaxEntries == 3        \* entries the two trees hold on disk at startup
MaxChanges == 3        \* changes made to a watch tree in one run
MaxQueue == 2          \* events waiting in one observer's queue
MaxDeliveries == 2     \* times one notification is delivered
MaxCalls == 3          \* paths mapped in one run of the mapping

Names == {"a", "b"}
Contents == {"X", "Y"}
OldContents == {"X"}

-----------------------------------------------------------------------------
(* Paths: pathlib.Path as a sequence of segments *)

Parent(p) == SubSeq(p, 1, Len(p) - 1)

Name(p) == p[Len(p)]

IsPrefix(r, p) == Len(r) <= Len(p) /\ SubSeq(p, 1, Len(r)) = r

\* PurePath.relative_to: defined when root is a prefix of p (ValueError otherwise)
relative_to_ok(p, root) == IsPrefix(root, p)

\* relative_to as a bug would have it: the name of p alone
relative_to_name(p, root) == IF p = root THEN <<>> ELSE <<Name(p)>>

relative_to(p, root) == SubSeq(p, Len(root) + 1, Len(p))

\* root / rel
Join(root, rel) == root \o rel

RECURSIVE RelPathsUpTo(_)
RelPathsUpTo(d) ==
    IF d = 0 THEN {<<>>}
    ELSE LET shorter == RelPathsUpTo(d - 1)
         IN shorter \cup {Append(p, n) : p \in {q \in shorter : Len(q) = d - 1}, n \in Names}

RelPaths == RelPathsUpTo(MaxDepth) \ {<<>>}

PathsUnder(root) == {Join(root, r) : r \in RelPaths}

-----------------------------------------------------------------------------
(* The filesystem calls the program makes *)

Exists(f, p) == p = <<>> \/ p \in DOMAIN f

IsDir(f, p) == p = <<>> \/ (p \in DOMAIN f /\ f[p] = "dir")

IsFile(f, p) == p # <<>> /\ p \in DOMAIN f /\ f[p] # "dir"

Prefixes(p) == {SubSeq(p, 1, k) : k \in 1..Len(p)}

Below(f, p) == {q \in DOMAIN f : IsPrefix(p, q)}

Ok(f) == [ok |-> TRUE, fs |-> f]

Raise(f) == [ok |-> FALSE, fs |-> f]

\* makedirs as a bug would have it: os.mkdir, which creates one level only
makedirs_one(f, p) ==
    IF IsFile(f, p) \/ ~IsDir(f, Parent(p))
    THEN Raise(f)
    ELSE Ok([q \in DOMAIN f \cup {p} |-> IF q \in DOMAIN f THEN f[q] ELSE "dir"])

\* os.makedirs(p, exist_ok=True): creates p and its missing ancestors; raises
\* when p or an ancestor is a regular file, before anything is created.
makedirs(f, p) ==
    IF \E q \in Prefixes(p) : IsFile(f, q)
    THEN Raise(f)
    ELSE Ok([q \in DOMAIN f \cup Prefixes(p) |-> IF q \in DOMAIN f THEN f[q] ELSE "dir"])

\* Path.mkdir(): one level, raises when p exists or its parent is no directory
mkdir(f, p) ==
    IF Exists(f, p) \/ ~IsDir(f, Parent(p))
    THEN Raise(f)
    ELSE Ok([q \in DOMAIN f \cup {p} |-> IF q = p THEN "dir" ELSE f[q]])

\* unlink as a bug would have it: the file stays
unlink_keeps(f, p) ==
    IF ~IsFile(f, p) THEN Raise(f) ELSE Ok(f)

\* Path.unlink()
unlink(f, p) ==
    IF ~IsFile(f, p)
    THEN Raise(f)
    ELSE Ok([q \in DOMAIN f \ {p} |-> f[q]])

\* rmtree as a bug would have it: os.rmdir, which refuses a directory that
\* is not empty
rmtree_rmdir(f, p) ==
    IF ~IsDir(f, p) \/ p = <<>> \/ Below(f, p) # {p}
    THEN Raise(f)
    ELSE Ok([q \in DOMAIN f \ {p} |-> f[q]])

\* rmtree as a bug would have it: called on the parent of p
rmtree_parent(f, p) ==
    IF ~IsDir(f, p) \/ p = <<>>
    THEN Raise(f)
    ELSE Ok([q \in DOMAIN f \ Below(f, Parent(p)) |-> f[q]])

\* shutil.rmtree(p)
rmtree(f, p) ==
    IF ~IsDir(f, p) \/ p = <<>>
    THEN Raise(f)
    ELSE Ok([q \in DOMAIN f \ Below(f, p) |-> f[q]])

\* shutil.copy2(src, dst): a dst that is a directory stands for dst/basename(src)
copy2(f, src, dst) ==
    LET real == IF IsDir(f, dst) THEN Append(dst, Name(src)) ELSE dst
    IN  IF ~IsFile(f, src) \/ real = src \/ ~IsDir(f, Parent(real)) \/ IsDir(f, real)
        THEN Raise(f)
        ELSE Ok([q \in DOMAIN f \cup {real} |-> IF q = real THEN f[src] ELSE f[q]])

-----------------------------------------------------------------------------
(* FileHandler *)

\* check_folder as a bug would have it: the test of exists() the wrong way
\* round, so that a missing folder is left missing
check_folder_inverted(f, target) ==
    IF Exists(f, target) THEN makedirs(f, target) ELSE Ok(f)

\* FileHandler.check_folder
check_folder(f, target) ==
    IF ~Exists(f, target) THEN makedirs(f, target) ELSE Ok(f)

\* FileHandler.copy_file
copy_file(f, src_path, target_path) == copy2(f, src_path, target_path)

\* target_folder / src_path.relative_to(watch_folder): relative_to raises
\* ValueError for a path that is not watch_folder or below it
target_path_of(target_folder, watch_folder, src_path) ==
    IF ~relative_to_ok(src_path, watch_folder)
    THEN [ok |-> FALSE, path |-> <<>>]
    ELSE [ok |-> TRUE, path |-> Join(target_folder, relative_to(src_path, watch_folder))]

\* logging.info(f"{event_type} {src} -> {target}")
InfoLine(event_type, src, target) ==
    [level |-> "INFO", event_type |-> event_type, src |-> src, target |-> target]

\* logging.error(f"on_created error: {e}")
ErrorLine(handler) ==
    [level |-> "ERROR", event_type |-> handler, src |-> <<>>, target |-> <<>>]

\* The outcome of a piece of code: did it return (ok), the filesystem and the
\* log lines it leaves behind.
Out(ok, f, lines) == [ok |-> ok, fs |-> f, lines |-> lines]

\* FileHandler.sync_file, the "created" and "modified" branch
sync_created(event_type, src_path, target_folder, watch_folder, f) ==
    IF ~relative_to_ok(src_path, watch_folder)
    THEN Out(FALSE, f, <<>>)
    ELSE
    LET target_path == Join(target_folder, relative_to(src_path, watch_folder))
        c1 == check_folder(f, Parent(target_path))
        c2 == copy_file(c1.fs, src_path, target_path)
        m  == mkdir(c1.fs, target_path)
        line == InfoLine(event_type, src_path, target_path)
    IN  IF ~c1.ok THEN Out(FALSE, c1.fs, <<>>)
        ELSE IF IsFile(c1.fs, src_path)
        THEN (IF c2.ok THEN Out(TRUE, c2.fs, <<line>>) ELSE Out(FALSE, c2.fs, <<>>))
        ELSE IF IsDir(c1.fs, target_path)
        THEN (IF ~Exists(c1.fs, target_path)
              THEN (IF m.ok THEN Out(TRUE, m.fs, <<line>>) ELSE Out(FALSE, m.fs, <<>>))
              ELSE Out(TRUE, c1.fs, <<>>))
        ELSE Out(TRUE, c1.fs, <<>>)

\* FileHandler.sync_file, the "moved" branch
sync_moved(event_type, src_path, target_folder, watch_folder, dest_path, f) ==
    IF ~relative_to_ok(src_path, watch_folder) \/ ~relative_to_ok(dest_path, watch_folder)
    THEN Out(FALSE, f, <<>>)
    ELSE
    LET target_path_old == Join(target_folder, relative_to(src_path, watch_folder))
        target_path_new == Join(target_folder, relative_to(dest_path, watch_folder))
        line == InfoLine(event_type, dest_path, target_path_new)
        u  == unlink(f, target_path_old)
        cu == copy_file(u.fs, dest_path, target_path_new)
        r  == rmtree(f, target_path_old)
        mr == mkdir(r.fs, target_path_new)
        c  == copy_file(f, dest_path, target_path_new)
        m  == mkdir(f, target_path_new)
    IN  IF Exists(f, target_path_old)
        THEN IF IsFile(f, target_path_old)
             THEN (IF cu.ok THEN Out(TRUE, cu.fs, <<line>>) ELSE Out(FALSE, cu.fs, <<>>))
             ELSE IF IsDir(f, target_path_old)
             THEN (IF ~r.ok THEN Out(FALSE, r.fs, <<>>)
                   ELSE IF mr.ok THEN Out(TRUE, mr.fs, <<line>>) ELSE Out(FALSE, mr.fs, <<>>))
             ELSE Out(TRUE, f, <<>>)
        ELSE IF IsFile(f, target_path_old)
             THEN (IF c.ok THEN Out(TRUE, c.fs, <<line>>) ELSE Out(FALSE, c.fs, <<>>))
             ELSE IF IsDir(f, target_path_old)
             THEN (IF m.ok THEN Out(TRUE, m.fs, <<line>>) ELSE Out(FALSE, m.fs, <<>>))
             ELSE Out(TRUE, f, <<>>)

\* FileHandler.sync_file, the "deleted" branch
sync_deleted(event_type, src_path, target_folder, watch_folder, f) ==
    IF ~relative_to_ok(src_path, watch_folder)
    THEN Out(FALSE, f, <<>>)
    ELSE
    LET target_path == Join(target_folder, relative_to(src_path, watch_folder))
        line == InfoLine(event_type, src_path, target_path)
        u == unlink(f, target_path)
        r == rmtree(f, target_path)
    IN  IF Exists(f, target_path)
        THEN IF IsFile(f, target_path) THEN Out(u.ok, u.fs, IF u.ok THEN <<line>> ELSE <<>>)
             ELSE IF IsDir(f, target_path) THEN Out(r.ok, r.fs, IF r.ok THEN <<line>> ELSE <<>>)
             ELSE Out(TRUE, f, <<>>)
        ELSE Out(TRUE, f, <<>>)

\* FileHandler.sync_file
sync_file(event_type, src_path, target_folder, watch_folder, dest_path, f) ==
    IF event_type \in {"modified", "created"}
    THEN sync_created(event_type, src_path, target_folder, watch_folder, f)
    ELSE IF event_type = "moved"
    THEN sync_moved(event_type, src_path, target_folder, watch_folder, dest_path, f)
    ELSE IF event_type = "deleted"
    THEN sync_deleted(event_type, src_path, target_folder, watch_folder, f)
    ELSE Out(TRUE, f, <<>>)

\* The statements of a handler that stand before its try block:
\*   if event.is_directory: self.check_folder(self.target_folder / src_path.relative_to(self.watch_folder))
\* An exception raised here is not caught by the handler.
before_try(h, event, f) ==
    IF ~event.is_directory THEN Ok(f)
    ELSE IF ~relative_to_ok(event.src_path, h.watch_folder) THEN Raise(f)
    ELSE check_folder(f, Join(h.target_folder, relative_to(event.src_path, h.watch_folder)))

\* on_created, on_modified, on_deleted, on_moved: the four handlers have the
\* same body but for the event type they pass to sync_file and name in the
\* error line.  The result: raised (an exception left the handler), the
\* filesystem, and the log lines the call appended.
on_event(event_type, h, event, f) ==
    LET b == before_try(h, event, f)
        s == sync_file(event_type, event.src_path, h.target_folder, h.watch_folder,
                       event.dest_path, b.fs)
    IN  IF ~b.ok
        THEN [raised |-> TRUE, fs |-> b.fs, lines |-> <<>>]
        ELSE IF s.ok
        THEN [raised |-> FALSE, fs |-> s.fs, lines |-> s.lines]
        ELSE [raised |-> FALSE, fs |-> s.fs, lines |-> <<ErrorLine(event_type)>>]

-----------------------------------------------------------------------------
(* Config.json, the events watchdog delivers, and the observers *)

WatchRoot == <<"src">>

MirrorRoot == <<"dst">>

OtherRoot == <<"src2">>

OtherMirror == <<"mirrors", "dst2">>

\* Config.json: the keys it has and the two lists
Cfg(keys, w, t) == [keys |-> keys, watch_folders |-> w, target_folders |-> t]

Configs ==
    { Cfg({"watch_folders", "target_folders"}, <<WatchRoot>>, <<MirrorRoot>>),
      Cfg({"watch_folders", "target_folders"}, <<WatchRoot, OtherRoot>>, <<MirrorRoot>>),
      Cfg({"target_folders"}, <<>>, <<MirrorRoot>>),
      Cfg({"watch_folders"}, <<WatchRoot>>, <<>>) }

GoodConfig == Cfg({"watch_folders", "target_folders"}, <<WatchRoot>>, <<MirrorRoot>>)

\* Config.json with two pairs, the second mirror root below a directory that
\* does not exist yet
PairsConfig ==
    Cfg({"watch_folders", "target_folders"}, <<WatchRoot, OtherRoot>>, <<MirrorRoot, OtherMirror>>)

NoPath == <<>>

\* watchdog's FileSystemEvent: event_type, src_path, dest_path, is_directory
Event(kind, src, dest, isdir) ==
    [kind |-> kind, src_path |-> src, dest_path |-> dest, is_directory |-> isdir]

\* The events a watcher of root can deliver: paths below the root, dest_path
\* only for moved events.
EventsUnder(root) ==
    {Event(k, p, NoPath, d) : k \in {"created", "modified", "deleted"},
                              p \in PathsUnder(root), d \in BOOLEAN}
    \cup {Event("moved", pq[1], pq[2], d) :
              pq \in {x \in PathsUnder(root) \X PathsUnder(root) : x[1] # x[2]},
              d \in BOOLEAN}

\* Observer as a bug would have it: every handler is given the first mirror root
Observer_shared(w, t) ==
    [watch_folder |-> w, target_folder |-> MirrorRoot, state |-> "running", queue |-> <<>>]

\* One started Observer with the FileHandler scheduled on it.  state:
\* "running", "stopping" (stop() was called), "terminated" (its thread has
\* returned), "dead" (its thread died of an exception a handler let through).
Observer(w, t) ==
    [watch_folder |-> w, target_folder |-> t, state |-> "running", queue |-> <<>>]

NoCall ==
    [kind |-> "none", event |-> Event("none", NoPath, NoPath, FALSE), pair |-> 0,
     pre |-> <<>>, raised |-> FALSE, lines |-> <<>>]

Ended == pc \in {"done", "crashed"}

\* The trees a directory can hold at startup: at most MaxEntries entries, every
\* entry's parent a directory.
TreesUnder(root, contents) ==
    LET sets == {S \in SUBSET PathsUnder(root) : Cardinality(S) <= MaxEntries}
        all  == UNION {[S -> {"dir"} \cup contents] : S \in sets}
    IN  {t \in all : \A p \in DOMAIN t :
            Parent(p) = root \/ (Parent(p) \in DOMAIN t /\ t[Parent(p)] = "dir")}

\* The tree below root as a function of the paths relative to root
TreeOf(f, root) ==
    [r \in {relative_to(p, root) : p \in {q \in DOMAIN f : IsPrefix(root, q) /\ q # root}}
        |-> f[Join(root, r)]]

-----------------------------------------------------------------------------
(* The handlers, run by an observer's thread on the head of its queue *)

Handle(i, event_type) ==
    /\ ~Ended
    /\ i \in 1..Len(observers)
    /\ observers[i].state = "running"
    /\ observers[i].queue # <<>>
    /\ Head(observers[i].queue).kind = event_type
    /\ LET o == observers[i]
           event == Head(o.queue)
           res == on_event(event_type, o, event, fs)
       IN  /\ fs' = res.fs
           /\ log' = log \o res.lines
           /\ observers' = [observers EXCEPT ![i] =
                  [o EXCEPT !.queue = Tail(o.queue),
                            !.state = IF res.raised THEN "dead" ELSE "running"]]
           /\ last' = [kind |-> event_type, event |-> event, pair |-> i, pre |-> fs,
                       raised |-> res.raised, lines |-> res.lines]
    /\ UNCHANGED <<config, pc, idx, interrupted, changes, deliveries, mapped>>

on_created(i) == Handle(i, "created")

on_modified(i) == Handle(i, "modified")

on_deleted(i) == Handle(i, "deleted")

on_moved(i) == Handle(i, "moved")

-----------------------------------------------------------------------------
(* main() *)

Min(a, b) == IF a <= b THEN a ELSE b

\* load_config(): config['watch_folders'] and config['target_folders'] raise
\* KeyError when the key is missing; nothing else is checked.
load_config_ok(c) == {"watch_folders", "target_folders"} \subseteq c.keys

\* zip(watch_folders, target_folders): as many pairs as the shorter list has
NPairs(c) == Min(Len(c.watch_folders), Len(c.target_folders))

\* watch_folders, target_folders = load_config()
load_config ==
    /\ pc = "load"
    /\ IF ~load_config_ok(config)
       THEN pc' = "crashed" /\ idx' = idx
       ELSE IF Len(config.target_folders) > 0
       THEN pc' = "makedirs" /\ idx' = 1
       ELSE pc' = "start" /\ idx' = 1
    /\ UNCHANGED <<fs, log, config, observers, interrupted, last, changes, deliveries, mapped>>

\* the makedirs loop as a bug would have it: it ends after the first folder
main_makedirs_first ==
    /\ pc = "makedirs"
    /\ LET m == makedirs(fs, config.target_folders[idx])
       IN  /\ fs' = m.fs
           /\ IF ~m.ok THEN pc' = "crashed" /\ idx' = idx
              ELSE pc' = "start" /\ idx' = 1
    /\ UNCHANGED <<log, config, observers, interrupted, last, changes, deliveries, mapped>>

\* for folder in target_folders: os.makedirs(folder, exist_ok=True)
main_makedirs ==
    /\ pc = "makedirs"
    /\ LET m == makedirs(fs, config.target_folders[idx])
       IN  /\ fs' = m.fs
           /\ IF ~m.ok THEN pc' = "crashed" /\ idx' = idx
              ELSE IF idx < Len(config.target_folders) THEN pc' = pc /\ idx' = idx + 1
              ELSE pc' = "start" /\ idx' = 1
    /\ UNCHANGED <<log, config, observers, interrupted, last, changes, deliveries, mapped>>

\* for watch_folder, target_folder in zip(...): handler, observer.schedule,
\* observer.start().  start() raises when the watch folder does not exist.
main_start ==
    /\ pc = "start"
    /\ idx <= NPairs(config)
    /\ LET w == config.watch_folders[idx]
           t == config.target_folders[idx]
       IN  IF ~IsDir(fs, w)
           THEN pc' = "crashed" /\ idx' = idx /\ observers' = observers
           ELSE pc' = pc /\ idx' = idx + 1 /\ observers' = Append(observers, Observer(w, t))
    /\ UNCHANGED <<fs, log, config, interrupted, last, changes, deliveries, mapped>>

\* The loop over the pairs is over: main() enters the try block and sleeps.
main_wait ==
    /\ pc = "start"
    /\ idx > NPairs(config)
    /\ pc' = "wait"
    /\ UNCHANGED <<fs, log, config, idx, observers, interrupted, last, changes, deliveries, mapped>>

\* SIGINT raises KeyboardInterrupt in the main thread, wherever it is.  The
\* try block of main() spans the sleep loop alone: there the except clause
\* takes over; anywhere before it the exception leaves main() and the process
\* ends, its observer threads (daemon threads) with it.
Interrupt ==
    /\ ~interrupted
    /\ pc \in {"load", "makedirs", "start", "wait"}
    /\ interrupted' = TRUE
    /\ IF pc = "wait"
       THEN IF Len(observers) > 0 THEN pc' = "stop" /\ idx' = 1
            ELSE pc' = "done" /\ idx' = idx
       ELSE pc' = "crashed" /\ idx' = idx
    /\ UNCHANGED <<fs, log, config, observers, last, changes, deliveries, mapped>>

\* for observer in observers: observer.stop()
main_stop ==
    /\ pc = "stop"
    /\ observers' = [observers EXCEPT ![idx].state =
                        IF @ = "running" THEN "stopping" ELSE @]
    /\ IF idx < Len(observers) THEN pc' = pc /\ idx' = idx + 1
       ELSE pc' = "join" /\ idx' = 1
    /\ UNCHANGED <<fs, log, config, interrupted, last, changes, deliveries, mapped>>

\* An observer's thread finds its stop flag set once it is between two events
\* and returns.
observer_exit(i) ==
    /\ ~Ended
    /\ i \in 1..Len(observers)
    /\ observers[i].state = "stopping"
    /\ observers' = [observers EXCEPT ![i].state = "terminated"]
    /\ UNCHANGED <<fs, log, config, pc, idx, interrupted, last, changes, deliveries, mapped>>

\* for observer in observers: observer.join()
main_join ==
    /\ pc = "join"
    /\ observers[idx].state \in {"terminated", "dead"}
    /\ IF idx < Len(observers) THEN pc' = pc /\ idx' = idx + 1
       ELSE pc' = "done" /\ idx' = idx
    /\ UNCHANGED <<fs, log, config, observers, interrupted, last, changes, deliveries, mapped>>

-----------------------------------------------------------------------------
(* Changes to a watched tree; the observer queues one event per change *)

CanChange(i) ==
    /\ ~Ended
    /\ i \in 1..Len(observers)
    /\ observers[i].state = "running"
    /\ changes < MaxChanges
    /\ Len(observers[i].queue) < MaxQueue

Emit(i, event) ==
    /\ observers' = [observers EXCEPT ![i].queue = Append(@, event)]
    /\ changes' = changes + 1
    /\ UNCHANGED <<log, config, pc, idx, interrupted, last, deliveries, mapped>>

user_create_file(i, p, c) ==
    /\ CanChange(i)
    /\ ~Exists(fs, p) /\ IsDir(fs, Parent(p))
    /\ fs' = (p :> c) @@ fs
    /\ Emit(i, Event("created", p, NoPath, FALSE))

user_mkdir(i, p) ==
    /\ CanChange(i)
    /\ ~Exists(fs, p) /\ IsDir(fs, Parent(p))
    /\ fs' = (p :> "dir") @@ fs
    /\ Emit(i, Event("created", p, NoPath, TRUE))

user_modify(i, p, c) ==
    /\ CanChange(i)
    /\ IsFile(fs, p) /\ fs[p] # c
    /\ fs' = [fs EXCEPT ![p] = c]
    /\ Emit(i, Event("modified", p, NoPath, FALSE))

\* rm of a file, rmdir of an empty directory
user_delete(i, p) ==
    /\ CanChange(i)
    /\ Exists(fs, p) /\ Below(fs, p) = {p}
    /\ fs' = [q \in DOMAIN fs \ {p} |-> fs[q]]
    /\ Emit(i, Event("deleted", p, NoPath, IsDir(fs, p)))

\* mv of a regular file onto a free name or over another regular file
user_rename(i, p, q) ==
    /\ CanChange(i)
    /\ IsFile(fs, p) /\ q # p /\ IsDir(fs, Parent(q)) /\ ~IsDir(fs, q)
    /\ fs' = [x \in (DOMAIN fs \ {p}) \cup {q} |-> IF x = q THEN fs[p] ELSE fs[x]]
    /\ Emit(i, Event("moved", p, q, FALSE))

\* A notification reaches the handler as watchdog built it: any event below
\* the watch root, whatever the trees hold by the time it is handled.  The
\* observer delivers it MaxDeliveries times over (watchdog repeats events, and
\* an operator may replay one).
Notify(i, event) ==
    /\ ~Ended
    /\ i \in 1..Len(observers)
    /\ observers[i].state = "running"
    /\ observers[i].queue = <<>>
    /\ deliveries = 0
    /\ deliveries' = MaxDeliveries
    /\ observers' = [observers EXCEPT ![i].queue = [k \in 1..MaxDeliveries |-> event]]
    /\ UNCHANGED <<fs, log, config, pc, idx, interrupted, last, changes, mapped>>

-----------------------------------------------------------------------------
(* Specifications *)

\* The program from its start: Config.json as found, the watch roots on disk
\* and empty, no mirror yet.
Init ==
    /\ config \in Configs
    /\ fs = [p \in {config.watch_folders[k] : k \in 1..Len(config.watch_folders)} |-> "dir"]
    /\ log = <<>>
    /\ pc = "load"
    /\ idx = 0
    /\ observers = <<>>
    /\ interrupted = FALSE
    /\ last = NoCall
    /\ changes = 0
    /\ deliveries = 0
    /\ mapped = <<>>

\* The handler calls an observer thread makes
created_handled == \E i \in 1..Len(observers) : on_created(i)

modified_handled == \E i \in 1..Len(observers) : on_modified(i)

deleted_handled == \E i \in 1..Len(observers) : on_deleted(i)

moved_handled == \E i \in 1..Len(observers) : on_moved(i)

\* The changes a user makes below a watch root
file_created ==
    /\ changes < MaxChanges
    /\ \E i \in 1..Len(observers) : \E p \in PathsUnder(observers[i].watch_folder) :
          \E c \in Contents : user_create_file(i, p, c)

dir_created ==
    /\ changes < MaxChanges
    /\ \E i \in 1..Len(observers) : \E p \in PathsUnder(observers[i].watch_folder) :
          user_mkdir(i, p)

file_modified ==
    /\ changes < MaxChanges
    /\ \E i \in 1..Len(observers) : \E p \in PathsUnder(observers[i].watch_folder) :
          \E c \in Contents : user_modify(i, p, c)

entry_deleted ==
    /\ changes < MaxChanges
    /\ \E i \in 1..Len(observers) : \E p \in PathsUnder(observers[i].watch_folder) :
          user_delete(i, p)

file_renamed ==
    /\ changes < MaxChanges
    /\ \E i \in 1..Len(observers) : \E p, q \in PathsUnder(observers[i].watch_folder) :
          user_rename(i, p, q)

thread_returned == \E i \in 1..Len(observers) : observer_exit(i)

Next ==
    \/ load_config
    \/ main_makedirs
    \/ main_start
    \/ main_wait
    \/ Interrupt
    \/ main_stop
    \/ thread_returned
    \/ main_join
    \/ file_created
    \/ dir_created
    \/ file_modified
    \/ entry_deleted
    \/ file_renamed
    \/ created_handled
    \/ modified_handled
    \/ deleted_handled
    \/ moved_handled

Spec == Init /\ [][Next]_vars

\* The program after its startup on a good configuration, with whatever the
\* watch tree and the mirror held at that time (a mirror left over from an
\* earlier run need not match the watch tree), handling one notification and
\* its repetitions.
InitHandler ==
    /\ config = GoodConfig
    /\ \E s \in TreesUnder(WatchRoot, Contents) : \E m \in TreesUnder(MirrorRoot, OldContents) :
          /\ Cardinality(DOMAIN s) + Cardinality(DOMAIN m) <= MaxEntries
          /\ fs = s @@ m @@ (WatchRoot :> "dir") @@ (MirrorRoot :> "dir")
    /\ log = <<>>
    /\ pc = "wait"
    /\ idx = 1
    /\ observers = <<Observer(WatchRoot, MirrorRoot)>>
    /\ interrupted = FALSE
    /\ last = NoCall
    /\ changes = 0
    /\ deliveries = 0
    /\ mapped = <<>>

notified ==
    /\ deliveries = 0
    /\ \E i \in 1..Len(observers) : \E e \in EventsUnder(observers[i].watch_folder) :
          Notify(i, e)

NextHandler ==
    \/ notified
    \/ created_handled
    \/ modified_handled
    \/ deleted_handled
    \/ moved_handled

SpecHandler == InitHandler /\ [][NextHandler]_vars

\* The program from its start on a configuration of two pairs
InitPairs ==
    /\ config = PairsConfig
    /\ fs = (WatchRoot :> "dir") @@ (OtherRoot :> "dir")
    /\ log = <<>>
    /\ pc = "load"
    /\ idx = 0
    /\ observers = <<>>
    /\ interrupted = FALSE
    /\ last = NoCall
    /\ changes = 0
    /\ deliveries = 0
    /\ mapped = <<>>

\* main() and the observer threads while no interrupt arrives
NextPairs ==
    \/ load_config
    \/ main_makedirs
    \/ main_start
    \/ main_wait
    \/ file_created
    \/ dir_created
    \/ file_modified
    \/ entry_deleted
    \/ file_renamed
    \/ created_handled
    \/ modified_handled
    \/ deleted_handled
    \/ moved_handled

SpecPairs == InitPairs /\ [][NextPairs]_vars

\* The paths a handler may be given: the watch roots, the paths below them,
\* the directory above them and a mirror root
MapInputs ==
    {<<>>, WatchRoot, OtherRoot, MirrorRoot}
        \cup PathsUnder(WatchRoot) \cup PathsUnder(OtherRoot)

\* The handler of pair i maps path p:
\*   target_path = self.target_folder / src_path.relative_to(self.watch_folder)
map_path(i, p) ==
    /\ i \in 1..Len(observers)
    /\ <<i, p>> \notin DOMAIN mapped
    /\ mapped' = (<<i, p>> :> target_path_of(observers[i].target_folder,
                                              observers[i].watch_folder, p)) @@ mapped
    /\ UNCHANGED <<fs, log, config, pc, idx, observers, interrupted, last, changes, deliveries>>

path_mapped ==
    /\ Cardinality(DOMAIN mapped) < MaxCalls
    /\ \E i \in 1..Len(observers) : \E p \in MapInputs : map_path(i, p)

\* The handlers of two pairs after startup, mapping the paths they are given
InitMap ==
    /\ config = PairsConfig
    /\ fs = (WatchRoot :> "dir") @@ (OtherRoot :> "dir")
    /\ log = <<>>
    /\ pc = "wait"
    /\ idx = 3
    /\ observers = <<Observer(WatchRoot, MirrorRoot), Observer(OtherRoot, OtherMirror)>>
    /\ interrupted = FALSE
    /\ last = NoCall
    /\ changes = 0
    /\ deliveries = 0
    /\ mapped = <<>>

NextMap == path_mapped

SpecMap == InitMap /\ [][NextMap]_vars

-----------------------------------------------------------------------------
(* What the claims speak of: the last handler call *)

Called == last.kind # "none"

LastPair == observers[last.pair]

\* the mapped target of the event's source path, and of its destination
Target == Join(LastPair.target_folder, relative_to(last.event.src_path, LastPair.watch_folder))

NewTarget == Join(LastPair.target_folder, relative_to(last.event.dest_path, LastPair.watch_folder))

MirrorBefore == TreeOf(last.pre, LastPair.target_folder)

MirrorAfter == TreeOf(fs, LastPair.target_folder)

\* no regular file stands where a directory above p is needed
NoFileAbove(f, p) == \A q \in Prefixes(Parent(p)) : ~IsFile(f, q)

-----------------------------------------------------------------------------
(* C1 *)

\* C1 (as claimed): handling an event a second time, with the watch tree as
\* it was at the first handling, leaves the mirror as the first handling left
\* it: a handler step that repeats the last call's event changes no mirror
\* entry.
C1_Idempotent ==
    [][(/\ Called
        /\ last'.kind = last.kind
        /\ last'.event = last.event
        /\ last'.pair = last.pair
        /\ TreeOf(last'.pre, LastPair.watch_folder) = TreeOf(last.pre, LastPair.watch_folder))
       => TreeOf(fs', LastPair.target_folder) = TreeOf(fs, LastPair.target_folder)]_vars

-----------------------------------------------------------------------------
(* C2 *)

\* C2 (as claimed): no exception leaves a handler, and no observer thread
\* dies of one.
C2_FailureContained ==
    /\ Called => ~last.raised
    /\ \A i \in 1..Len(observers) : observers[i].state # "dead"

-----------------------------------------------------------------------------
(* C3 *)

\* C3 (as claimed): from an empty watch tree and an empty mirror, once an
\* observer's every event is handled the mirror tree equals the watch tree,
\* files byte for byte.
C3_EventuallyConsistent ==
    \A i \in 1..Len(observers) :
        (~Ended /\ observers[i].state = "running" /\ observers[i].queue = <<>>)
        => TreeOf(fs, observers[i].target_folder) = TreeOf(fs, observers[i].watch_folder)

-----------------------------------------------------------------------------
(* C4 *)

CreatedOrModifiedFile ==
    /\ Called
    /\ last.kind \in {"created", "modified"}
    /\ IsFile(last.pre, last.event.src_path)

TargetHoldsSource ==
    /\ IsFile(fs, Target)
    /\ fs[Target] = last.pre[last.event.src_path]
    /\ IsDir(fs, Parent(Target))

\* C4 (as claimed): after a created or modified event whose source is a
\* regular file, the target is a file with the source's bytes and its parent
\* is a directory, whatever the mirror held.
C4_AsClaimed == CreatedOrModifiedFile => TargetHoldsSource

\* C4 (amended): the same, when the target was a regular file before the
\* call, or was absent with no regular file among its ancestors and the event
\* does not carry is_directory.
C4_CreatedModifiedFile ==
    (/\ CreatedOrModifiedFile
     /\ \/ IsFile(last.pre, Target)
        \/ /\ ~Exists(last.pre, Target)
           /\ ~last.event.is_directory
           /\ NoFileAbove(last.pre, Target))
    => (TargetHoldsSource /\ ~last.raised)

\* C4 witness: a modified event, no created event before it, for a file two
\* levels down whose target and target's parent were both missing.
C4_Witness ==
    /\ CreatedOrModifiedFile
    /\ last.kind = "modified"
    /\ ~last.event.is_directory
    /\ Len(Target) = Len(LastPair.target_folder) + 2
    /\ ~Exists(last.pre, Parent(Target))
    /\ TargetHoldsSource

-----------------------------------------------------------------------------
(* C5 *)

MovedFile ==
    /\ Called
    /\ last.kind = "moved"
    /\ IsFile(last.pre, Target)
    /\ IsFile(last.pre, last.event.dest_path)

MovedToNewTarget ==
    /\ ~Exists(fs, Target)
    /\ IsFile(fs, NewTarget)
    /\ fs[NewTarget] = last.pre[last.event.dest_path]

\* C5 (as claimed): when the old target is a file and the destination is a
\* regular file, after the moved event the old target is gone and the new
\* target is a file with the destination's bytes.
C5_AsClaimed == MovedFile => MovedToNewTarget

\* C5 (amended): the same, when the new target's parent is a directory of the
\* mirror and the new target is not itself a directory.
C5_MovedFile ==
    (/\ MovedFile
     /\ IsDir(last.pre, Parent(NewTarget))
     /\ ~IsDir(last.pre, NewTarget))
    => MovedToNewTarget

\* C5 witness: a moved file whose new target held other bytes before.
C5_Witness ==
    /\ MovedFile
    /\ IsFile(last.pre, NewTarget)
    /\ last.pre[NewTarget] # last.pre[last.event.dest_path]
    /\ MovedToNewTarget

-----------------------------------------------------------------------------
(* C6 *)

\* C6: after a deleted event nothing exists at the target or below it,
\* whatever the target was and whatever the event's is_directory says.
C6_DeletedGone ==
    (Called /\ last.kind = "deleted") => Below(fs, Target) = {}

\* C6 witness: a deleted event whose target was a directory with a child,
\* delivered without is_directory.
C6_Witness ==
    /\ Called
    /\ last.kind = "deleted"
    /\ ~last.event.is_directory
    /\ IsDir(last.pre, Target)
    /\ Below(last.pre, Target) # {Target}
    /\ Below(fs, Target) = {}

-----------------------------------------------------------------------------
(* C7 *)

\* C7 (as claimed): a deleted event whose target is absent raises nothing and
\* leaves the mirror tree as it was, ancestors included.
C7_DeletedAbsentNoop ==
    (Called /\ last.kind = "deleted" /\ ~Exists(last.pre, Target))
    => (~last.raised /\ MirrorAfter = MirrorBefore)

-----------------------------------------------------------------------------
(* C8 *)

Malformed(c) ==
    \/ ~load_config_ok(c)
    \/ Len(c.watch_folders) # Len(c.target_folders)

\* C8 (as claimed): on a configuration that lacks a key or whose lists differ
\* in length no observer is ever started.
C8_MalformedConfigFatal == Malformed(config) => observers = <<>>

-----------------------------------------------------------------------------
(* C9 *)

\* C9 (as claimed): once the interrupt signal has come, the process ends only
\* with every observer stopped and its thread returned.
C9_CooperativeShutdown ==
    (interrupted /\ Ended)
    => \A i \in 1..Len(observers) : observers[i].state \in {"terminated", "dead"}

-----------------------------------------------------------------------------
(* C10 *)

\* a line of the last call that names its event type and its source path
NamesEvent(line) ==
    /\ line.event_type = last.kind
    /\ line.src \in {last.event.src_path, last.event.dest_path}
    /\ line.target \in {Target, NewTarget}

\* C10 (as claimed): a handler call that changed the mirror appended a log
\* line naming event type, source and target (or an error line when an action
\* failed), and a call that let an exception through appended an error line.
C10_AuditLog ==
    Called =>
        /\ MirrorAfter # MirrorBefore =>
              \E k \in 1..Len(last.lines) :
                  last.lines[k].level = "ERROR" \/ NamesEvent(last.lines[k])
        /\ last.raised => \E k \in 1..Len(last.lines) : last.lines[k].level = "ERROR"

-----------------------------------------------------------------------------
(* C11 *)

\* C11 (as claimed): a moved event whose old target is absent and whose
\* destination is a regular file leaves the new target a file with the
\* destination's bytes.
C11_MovedStaleMirror ==
    (/\ Called
     /\ last.kind = "moved"
     /\ ~Exists(last.pre, Target)
     /\ IsFile(last.pre, last.event.dest_path))
    => (IsFile(fs, NewTarget) /\ fs[NewTarget] = last.pre[last.event.dest_path])

-----------------------------------------------------------------------------
(* C12 *)

\* C12 (as claimed): after a moved event for a directory the old target is
\* gone with its subtree and the new target is a directory, its missing
\* ancestors created, whether or not the old target existed; nothing that
\* was below the old target is copied below the new one.
C12_MovedDirectory ==
    (/\ Called
     /\ last.kind = "moved"
     /\ last.event.is_directory
     /\ IsDir(last.pre, Target) \/ ~Exists(last.pre, Target)
     /\ NoFileAbove(last.pre, Target)
     /\ NoFileAbove(last.pre, NewTarget)
     /\ ~IsFile(last.pre, NewTarget))
    => /\ Below(fs, Target) = {}
       /\ IsDir(fs, NewTarget)
       /\ \A q \in Below(fs, NewTarget) : q = NewTarget \/ q \in DOMAIN last.pre

-----------------------------------------------------------------------------
(* Directories in created and modified events *)

CreatedOrModified == Called /\ last.kind \in {"created", "modified"}

\* C13 (as claimed): after a created or a modified event whose source path is
\* a directory the target exists as a directory, and a target that was a
\* directory before leaves the mirror tree as it was.
C13_AsClaimed ==
    (CreatedOrModified /\ IsDir(last.pre, last.event.src_path))
    => /\ IsDir(fs, Target)
       /\ IsDir(last.pre, Target) => MirrorAfter = MirrorBefore

\* C13 (amended): after a created or a modified event that carries
\* is_directory and whose source path is a directory, with no regular file at
\* the target or above it, the handler returns, the target and all its
\* ancestors are directories, every entry that existed keeps its type and
\* content, the only new entries are the target and its ancestors, and a
\* target that was a directory before leaves the filesystem as it was.
C13_CreatedModifiedDirectory ==
    (/\ CreatedOrModified
     /\ last.event.is_directory
     /\ IsDir(last.pre, last.event.src_path)
     /\ ~IsFile(last.pre, Target)
     /\ NoFileAbove(last.pre, Target))
    => /\ ~last.raised
       /\ \A q \in Prefixes(Target) : IsDir(fs, q)
       /\ DOMAIN fs = DOMAIN last.pre \cup Prefixes(Target)
       /\ \A q \in DOMAIN last.pre : fs[q] = last.pre[q]
       /\ IsDir(last.pre, Target) => fs = last.pre

\* C13 witness: a directory event two levels down whose target and target's
\* parent were both absent, and both are directories afterwards
C13_Witness ==
    /\ CreatedOrModified
    /\ last.event.is_directory
    /\ IsDir(last.pre, last.event.src_path)
    /\ Len(Target) = Len(LastPair.target_folder) + 2
    /\ ~Exists(last.pre, Parent(Target))
    /\ IsDir(fs, Parent(Target))
    /\ IsDir(fs, Target)

-----------------------------------------------------------------------------
(* A directory where a file is to be written, a file where a directory is to be *)

ErrorLogged == \E k \in 1..Len(last.lines) : last.lines[k].level = "ERROR"

\* The entries at and below p are what they were before the call
SubtreeKept(p) ==
    /\ Below(fs, p) = Below(last.pre, p)
    /\ \A q \in Below(fs, p) : fs[q] = last.pre[q]

\* C14 (as claimed): a copy whose target is a directory in the mirror (the
\* target of a created or modified file event, the new target of a moved file
\* event) fails with an error and writes nothing at or below that directory.
C14_CopyOntoDirectoryFails ==
    /\ (/\ CreatedOrModified
         /\ ~last.event.is_directory
         /\ IsFile(last.pre, last.event.src_path)
         /\ IsDir(last.pre, Target))
        => (ErrorLogged /\ SubtreeKept(Target))
    /\ (/\ Called
         /\ last.kind = "moved"
         /\ ~last.event.is_directory
         /\ IsFile(last.pre, last.event.dest_path)
         /\ IsFile(last.pre, Target)
         /\ IsDir(last.pre, NewTarget))
        => (ErrorLogged /\ SubtreeKept(NewTarget))

\* C15 (as claimed): when the path to be made a directory is a regular file
\* in the mirror (the target of a created or modified directory event, the
\* parent of the target of a created or modified file event) the handler
\* fails, by an exception or an error line, and the file stays as it was.
C15_EnsureOntoFileFails ==
    /\ (/\ CreatedOrModified
         /\ last.event.is_directory
         /\ IsDir(last.pre, last.event.src_path)
         /\ IsFile(last.pre, Target))
        => /\ last.raised \/ ErrorLogged
           /\ SubtreeKept(Target)
    /\ (/\ CreatedOrModified
         /\ ~last.event.is_directory
         /\ IsFile(last.pre, last.event.src_path)
         /\ IsFile(last.pre, Parent(Target)))
        => /\ last.raised \/ ErrorLogged
           /\ SubtreeKept(Parent(Target))

-----------------------------------------------------------------------------
(* What one handler call may touch *)

\* The entry at q is not what it was before the call: it appeared, it went
\* away, or its type or content differs
Changed(q) ==
    \/ (q \in DOMAIN last.pre) # (q \in DOMAIN fs)
    \/ (q \in DOMAIN last.pre /\ q \in DOMAIN fs /\ fs[q] # last.pre[q])

\* q is the target of the source path, the target of the destination path of
\* a moved event, or below one of the two
AtOrBelowTargets(q) ==
    \/ IsPrefix(Target, q)
    \/ (last.kind = "moved" /\ IsPrefix(NewTarget, q))

\* q is an ancestor of one of the two targets that was missing and is a
\* directory now
CreatedAncestor(q) ==
    /\ q \notin DOMAIN last.pre
    /\ IsDir(fs, q)
    /\ \/ IsPrefix(q, Target)
       \/ (last.kind = "moved" /\ IsPrefix(q, NewTarget))

\* C19: one handler call changes no entry but the target of the source path,
\* the target of the destination path (moved only), what is below the two,
\* and missing ancestors of them that it creates as directories; it removes
\* no entry but the source path's target and what is below it.
C19_Frame ==
    Called =>
        /\ \A q \in DOMAIN last.pre \cup DOMAIN fs :
               Changed(q) => (AtOrBelowTargets(q) \/ CreatedAncestor(q))
        /\ \A q \in DOMAIN last.pre \ DOMAIN fs : IsPrefix(Target, q)

\* C19 witness: a deleted event removed a directory together with an entry
\* below it while another entry of the mirror, outside the target, stayed
C19_Witness ==
    /\ Called
    /\ last.kind = "deleted"
    /\ Cardinality(Below(last.pre, Target)) >= 2
    /\ Below(fs, Target) = {}
    /\ \E q \in DOMAIN last.pre :
           /\ IsPrefix(LastPair.target_folder, q)
           /\ q # LastPair.target_folder
           /\ ~IsPrefix(Target, q)
           /\ q \in DOMAIN fs
           /\ fs[q] = last.pre[q]

-----------------------------------------------------------------------------
(* Startup order and the pairs side by side *)

TargetFolders == {config.target_folders[k] : k \in 1..Len(config.target_folders)}

\* C16: once the first watcher has been started, every configured target
\* directory exists as a directory, and so does each of its ancestors.
C16_TargetsBeforeWatchers ==
    Len(observers) > 0 =>
        \A t \in TargetFolders : \A q \in Prefixes(t) : IsDir(fs, q)

\* C16 witness: the first watcher is started and the second is not yet; the
\* second pair's mirror root, two levels down, is there already
C16_Witness ==
    /\ pc = "start"
    /\ Len(observers) = 1
    /\ Len(config.target_folders) = 2
    /\ IsDir(fs, Parent(config.target_folders[2]))
    /\ IsDir(fs, config.target_folders[2])

\* A handler of pair i makes this step: only a handler takes an event off a queue
HandlerStep(i) ==
    /\ Len(observers') = Len(observers)
    /\ Len(observers'[i].queue) < Len(observers[i].queue)

\* The paths whose entry this step changes
Touched ==
    {q \in DOMAIN fs \cup DOMAIN fs' :
        \/ (q \in DOMAIN fs) # (q \in DOMAIN fs')
        \/ (q \in DOMAIN fs /\ q \in DOMAIN fs' /\ fs'[q] # fs[q])}

\* The filesystem with nothing in it but the two trees Config.json names for
\* pair i and what is above their roots
Alone(f, i) ==
    LET w == config.watch_folders[i]
        t == config.target_folders[i]
    IN  [q \in {x \in DOMAIN f : \/ IsPrefix(w, x) \/ IsPrefix(x, w)
                                  \/ IsPrefix(t, x) \/ IsPrefix(x, t)} |-> f[q]]

\* C18: every path a handler of pair i creates, overwrites or removes is at
\* or below the mirror root Config.json names for pair i, and what the call
\* leaves in that mirror is what it leaves there when the other pairs' trees
\* are not on disk.
C18_PairIsolation ==
    [][\A i \in 1..Len(observers) : HandlerStep(i) =>
          /\ \A q \in Touched : IsPrefix(config.target_folders[i], q)
          /\ LET e == Head(observers[i].queue)
                 alone == on_event(e.kind, observers[i], e, Alone(fs, i))
             IN  TreeOf(fs', config.target_folders[i])
                     = TreeOf(alone.fs, config.target_folders[i])]_vars

\* C18 witness: the second pair's handler has written into its mirror while
\* the first pair's mirror holds an entry
C18_Witness ==
    /\ Called
    /\ last.pair = 2
    /\ fs # last.pre
    /\ Len(observers) = 2
    /\ Below(fs, config.target_folders[1]) # {config.target_folders[1]}
    /\ Below(fs, config.target_folders[2]) # {config.target_folders[2]}

-----------------------------------------------------------------------------
(* The mapping from watch tree to mirror *)

\* p is root or below it, said segment by segment
AtOrBelow(root, p) ==
    /\ Len(p) >= Len(root)
    /\ \A k \in 1..Len(root) : p[k] = root[k]

\* m is root followed by exactly the segments of p after the first n
Rerooted(m, root, p, n) ==
    /\ Len(m) = Len(root) + (Len(p) - n)
    /\ \A k \in 1..Len(root) : m[k] = root[k]
    /\ \A k \in 1..(Len(p) - n) : m[Len(root) + k] = p[n + k]

\* C17: a path at or below the watch root of a pair maps to the mirror root
\* followed by exactly the segments that follow the watch root, in order; two
\* different paths below one watch root map to two different paths below the
\* mirror root; a path not below the watch root is rejected and maps to nothing.
C17_PathMapping ==
    /\ \A c \in DOMAIN mapped :
          LET w == config.watch_folders[c[1]]
              t == config.target_folders[c[1]]
          IN  IF AtOrBelow(w, c[2])
              THEN mapped[c].ok /\ Rerooted(mapped[c].path, t, c[2], Len(w))
              ELSE ~mapped[c].ok /\ mapped[c].path = <<>>
    /\ \A c, d \in DOMAIN mapped :
          (c[1] = d[1] /\ c[2] # d[2] /\ mapped[c].ok /\ mapped[d].ok)
          => /\ mapped[c].path # mapped[d].path
             /\ AtOrBelow(config.target_folders[c[1]], mapped[c].path)
             /\ AtOrBelow(config.target_folders[d[1]], mapped[d].path)

\* C17 witness: the handler of the second pair has mapped two paths of two
\* segments below its watch root that end in the same name, and rejected a
\* path below the other watch root
C17_Witness ==
    \E c, d, e \in DOMAIN mapped :
        /\ c[1] = 2 /\ d[1] = 2 /\ e[1] = 2
        /\ c[2] # d[2]
        /\ Len(c[2]) = Len(OtherRoot) + 2 /\ Len(d[2]) = Len(OtherRoot) + 2
        /\ Name(c[2]) = Name(d[2])
        /\ mapped[c].ok /\ mapped[d].ok
        /\ mapped[c].path # mapped[d].path
        /\ IsPrefix(WatchRoot, e[2])
        /\ ~mapped[e].ok

====
